---- MODULE Spec2Model ----
(***************************************************************************)
(* One run of main(): VehicleClient.initialize() followed by               *)
(* VehicleClient.refresh(), with the two reconciliation passes             *)
(* (process_and_upload_daily_stats) that refresh() performs.               *)
(*                                                                         *)
(* Dates are day ordinals 0..MaxDay of a calendar whose months have        *)
(* DaysPerMonth days; a power in kilowatts is an exact fraction [n, d].    *)
(* The telematics backend and the tracking service are environment: every  *)
(* call to them either fails or returns a value drawn from a small set.    *)
(* Init is a constructed client: main.py passes use_kiauvoapieu and        *)
(* kia_language to a constructor that does not declare them, which the     *)
(* model does not follow; it starts where initialize() is entered.         *)
(*                                                                         *)
(* Spec is that run. RunSpec is the same run and also remembers, across    *)
(* the delta check, the day-level calls of the first pass. EstSpec is the  *)
(* estimator alone, run any number of times on a wider set of snapshots.   *)
(*                                                                         *)
(* Definitions named X_suffix next to a definition X are faulty variants   *)
(* of X; the properties below are also run against them.                   *)
(***************************************************************************)
EXTENDS Integers, Sequences, FiniteSets, TLC

\* ------------------------------------------------------------- bounds ---
MaxDay == 3
DaysPerMonth == 2

\* ---------------------------------------------------------- constants ---
estimated_niro_total_kwh_needed == 70

Dates == 0..MaxDay
NoDate == -1
NoMonth == -1
NoOdometer == -1

\* the distances (km) a day of the bounded runs can report
Distances == {0, 1}

\* the snapshots the telematics backend reports in the bounded runs: parked,
\* fast charging at 50 %, charging at 96 %, charging with no time reported
Snapshot(charging, pct, ac, dc, minutes, odo) ==
  [ev_battery_is_charging |-> charging,
   ev_battery_percentage |-> pct,
   ev_charge_limits_ac |-> ac,
   ev_charge_limits_dc |-> dc,
   ev_estimated_current_charge_duration |-> minutes,
   odometer |-> odo]

Telemetry ==
  {Snapshot(FALSE, 50, 80, 100, 0, 20),
   Snapshot(TRUE, 50, 80, 100, 60, 20),
   Snapshot(TRUE, 96, 80, 100, 60, 25),
   Snapshot(TRUE, 50, 80, 100, 0, 25)}

\* self.vehicle before the first get_vehicle(): nothing is known yet
NoVehicle ==
  [ev_battery_is_charging |-> FALSE,
   ev_battery_percentage |-> 0,
   ev_charge_limits_ac |-> 0,
   ev_charge_limits_dc |-> 0,
   ev_estimated_current_charge_duration |-> 0,
   odometer |-> 0]

\* the daily stats a driving-info response can carry: one DailyStat per
\* calendar day of some subset of the window, odometer not yet assigned
DailyStatsResponses ==
  UNION {[S -> [distance : Distances, odometer : {NoOdometer}]] : S \in SUBSET Dates}

\* ------------------------------------------------------ date formats ---
\* day.date.strftime("%Y%m"): the month token
Month(d) == d \div DaysPerMonth

\* strftime("%d.%m.%Y"): day of month, then the month token
FormatDate(d) == <<(d % DaysPerMonth) + 1, d \div DaysPerMonth>>

\* datetime.strptime(s, '%d.%m.%Y').date()
ParseDate(s) == s[2] * DaysPerMonth + (s[1] - 1)

\* ---------------------------------------------------------- fractions ---
Rat(n, d) == [n |-> n, d |-> d]
Zero == Rat(0, 1)
RatGt(a, k) == a.n > k * a.d
RatMin(k, a) == IF k * a.d < a.n THEN Rat(k, 1) ELSE a

\* round(x, 1), in tenths of a kilowatt (ties to even)
RoundTenths(a) ==
  LET t == 10 * a.n
      q == t \div a.d
      r == t % a.d
  IN IF 2 * r < a.d THEN q
     ELSE IF 2 * r > a.d THEN q + 1
     ELSE IF q % 2 = 0 THEN q ELSE q + 1

\* ---------------------------------------------------------- estimator ---
\* the DC taper ceiling applied to the local estimate
TaperClamp_none(pct, p) == p
TaperClamp(pct, p) ==
  IF pct > 95 THEN RatMin(5, p)
  ELSE IF pct > 90 THEN RatMin(10, p)
  ELSE IF pct > 80 THEN RatMin(20, p)
  ELSE IF pct > 75 THEN RatMin(35, p)
  ELSE IF pct > 55 THEN RatMin(55, p)
  ELSE IF pct > 40 THEN RatMin(70, p)
  ELSE IF pct > 27 THEN RatMin(77, p)
  ELSE p

\* kwh_remaining / (duration / 60) with kwh_remaining = capacity * pct / 100
PowerFor(percent_remaining, minutes) ==
  Rat(estimated_niro_total_kwh_needed * percent_remaining * 60, 100 * minutes)

\* the session is taken for DC
IsDcSession(v, p) ==
  RatGt(p, 8) /\ v.ev_charge_limits_ac - v.ev_battery_percentage > 15

\* One call of get_estimated_charging_power on vehicle v with the client
\* fields ct (charge_type) and cp (charging_power_in_kilowatts): whether it
\* raised, the two fields afterwards, and the value returned (tenths of kW).
get_estimated_charging_power(v, ct, cp) ==
  IF ~v.ev_battery_is_charging
  THEN [raised |-> FALSE, charge_type |-> ct,
        charging_power_in_kilowatts |-> cp, power |-> 0]
  ELSE IF v.ev_estimated_current_charge_duration = 0
  THEN \* ZeroDivisionError, before any field is written
       [raised |-> TRUE, charge_type |-> ct,
        charging_power_in_kilowatts |-> cp, power |-> 0]
  ELSE
    LET naive == PowerFor(100 - v.ev_battery_percentage,
                          v.ev_estimated_current_charge_duration)
    IN IF IsDcSession(v, naive)
       THEN [raised |-> FALSE, charge_type |-> "DC",
             charging_power_in_kilowatts |->
               PowerFor(v.ev_charge_limits_dc - v.ev_battery_percentage,
                        v.ev_estimated_current_charge_duration),
             power |-> RoundTenths(TaperClamp(v.ev_battery_percentage, naive))]
       ELSE [raised |-> FALSE, charge_type |-> "AC",
             charging_power_in_kilowatts |-> cp,
             power |-> RoundTenths(naive)]

\* --------------------------------------------------------- reconciler ---
SetMax(S) == CHOOSE x \in S : \A y \in S : y <= x
SetMin(S) == CHOOSE x \in S : \A y \in S : x <= y
Range(seq) == {seq[i] : i \in 1..Len(seq)}

\* sorted(self.vehicle.daily_stats, key=lambda x: x.date, reverse=True),
\* as the sequence of the days' dates
RECURSIVE SortNewestFirst(_)
SortNewestFirst(S) ==
  IF S = {} THEN <<>>
  ELSE <<SetMax(S)>> \o SortNewestFirst(S \ {SetMax(S)})

\* filtered_stats.sort(key=lambda x: x.date)
RECURSIVE SortSet(_)
SortSet(S) ==
  IF S = {} THEN <<>>
  ELSE <<SetMin(S)>> \o SortSet(S \ {SetMin(S)})

SortOldestFirst_unsorted(seq) == seq
SortOldestFirst(seq) == SortSet(Range(seq))

\* current_odometer -= day.distance
NextOdometer_add(current_odometer, distance) == current_odometer + distance
NextOdometer(current_odometer, distance) == current_odometer - distance

\* for day in sorted_daily_stats: day.odometer = current_odometer; ...
RECURSIVE AssignOdometers(_, _, _)
AssignOdometers(sorted, stats, current_odometer) ==
  IF sorted = <<>> THEN stats
  ELSE AssignOdometers(Tail(sorted),
         [stats EXCEPT ![Head(sorted)].odometer = current_odometer],
         NextOdometer(current_odometer, stats[Head(sorted)].distance))

\* latest_date and latest_date >= (today - timedelta(days=1))
AlreadyCurrent(latest, tdy) == latest # NoDate /\ latest >= tdy - 1

\* the condition of the filtered_stats comprehension
KeepDay_ge(d, latest, tdy) == (latest = NoDate \/ d >= latest) /\ d < tdy
KeepDay_le(d, latest, tdy) == (latest = NoDate \/ d > latest) /\ d <= tdy
KeepDay_gap(d, latest, tdy) == (latest = NoDate \/ d > latest) /\ d < tdy - 1
KeepDay(d, latest, tdy) == (latest = NoDate \/ d > latest) /\ d < tdy

\* if month != current_month
NewMonth_always(month, current) == TRUE
NewMonth(month, current) == month # current

\* ----------------------------------------------------- record builder ---
\* self.charge_type.value.lower()
Lower(ct) == CASE ct = "DC" -> "dc" [] ct = "AC" -> "ac" [] OTHER -> "unknown"

\* the consumption_data mapping built for one day (the fields that depend
\* on the day, the vehicle and the estimator)
ConsumptionData(d, stats, v, ct, cp) ==
  [date |-> FormatDate(d),
   odometer |-> stats[d].odometer,
   trip |-> stats[d].distance,
   charging_power |-> cp,
   charging_duration |-> 0,
   charge_info |-> <<Lower(ct), "source_vehicle">>,
   percent |-> v.ev_battery_percentage]

\* SpritMonitorClient.upload_consumption_data: the request that is sent;
\* charging power and duration are only added when they are positive
RequestData(data) ==
  [date |-> data.date,
   odometer |-> data.odometer,
   trip |-> data.trip,
   charge_info |-> data.charge_info \o <<"source_vehicle">>,
   percent |-> data.percent,
   has_charging_power |-> data.charging_power.n > 0,
   charging_power |-> IF data.charging_power.n > 0 THEN data.charging_power ELSE Zero,
   has_charging_duration |-> data.charging_duration > 0,
   charging_duration |-> IF data.charging_duration > 0 THEN data.charging_duration ELSE 0]

NoRequest ==
  [date |-> <<0, 0>>, odometer |-> 0, trip |-> 0, charge_info |-> <<>>,
   percent |-> 0, has_charging_power |-> FALSE, charging_power |-> Zero,
   has_charging_duration |-> FALSE, charging_duration |-> 0]

\* what get_latest_fuelings can come back with: an error, no entries, a
\* first entry carrying a date string, or a first entry whose date parses
\* and whose odometer does not
FuelingsResponses ==
  {[kind |-> "error", date |-> <<0, 0>>],
   [kind |-> "empty", date |-> <<0, 0>>]}
  \cup {[kind |-> k, date |-> FormatDate(d)] :
          k \in {"entries", "malformed"}, d \in Dates}

\* ------------------------------------------------------------- state ---
VARIABLES
  pc,                           \* the statement main() is at
  result,                       \* how the run ended, "running" before
  vehicle,                      \* self.vehicle: the telemetry snapshot
  daily_stats,                  \* self.vehicle.daily_stats: date -> DailyStat
  charge_type,                  \* self.charge_type
  charging_power_in_kilowatts,  \* self.charging_power_in_kilowatts
  spritmonitor_vehicle_id,      \* whether SPRITMONITOR_VEHICLE_ID is set
  today,                        \* datetime.date.today()
  pass,                         \* number of the reconciliation pass, 0 before
  lookup,                       \* outcome of this pass's checkpoint lookup
  latest_date,                  \* latest_date of this pass
  filtered_stats,               \* filtered_stats of this pass (dates)
  idx,                          \* position of the upload loop
  current_month,                \* current_month of the upload loop
  calls,                        \* external calls of the loop, this pass
  estimate,                     \* the last estimator call: input flag, output
  earlier                       \* day-level calls of the invocation's first pass

vars == <<pc, result, vehicle, daily_stats, charge_type,
          charging_power_in_kilowatts, spritmonitor_vehicle_id, today, pass,
          lookup, latest_date, filtered_stats, idx, current_month, calls,
          estimate, earlier>>

estimatorVars == <<charge_type, charging_power_in_kilowatts, estimate>>
passVars == <<lookup, latest_date, filtered_stats, idx, current_month, calls>>
configVars == <<spritmonitor_vehicle_id, today>>

NoEstimate == [ran |-> FALSE, charging |-> FALSE, raised |-> FALSE, power |-> 0]

Init ==
  /\ pc = "init_token"
  /\ result = "running"
  /\ vehicle = NoVehicle
  /\ daily_stats = [d \in {} |-> [distance |-> 0, odometer |-> NoOdometer]]
  /\ charge_type = "UNKNOWN"
  /\ charging_power_in_kilowatts = Zero
  /\ spritmonitor_vehicle_id \in BOOLEAN
  /\ today \in {MaxDay - 1, MaxDay}
  /\ pass = 0
  /\ lookup = "none"
  /\ latest_date = NoDate
  /\ filtered_stats = <<>>
  /\ idx = 1
  /\ current_month = NoMonth
  /\ calls = <<>>
  /\ estimate = NoEstimate
  /\ earlier = {}

\* the run is over: main() prints its message and returns
Finish(how) ==
  /\ pc' = "done"
  /\ result' = how

\* _update_vehicle_properties(self.vehicle, response) followed by
\* self.get_estimated_charging_power(); an exception of the estimator
\* leaves the caller, which ends the run with `onRaise`
UpdateAndEstimate(t, nextPc, onRaise) ==
  LET e == get_estimated_charging_power(t, charge_type, charging_power_in_kilowatts)
  IN /\ vehicle' = t
     /\ charge_type' = e.charge_type
     /\ charging_power_in_kilowatts' = e.charging_power_in_kilowatts
     /\ estimate' = [ran |-> TRUE, charging |-> t.ev_battery_is_charging,
                     raised |-> e.raised, power |-> e.power]
     /\ IF e.raised THEN Finish(onRaise)
        ELSE pc' = nextPc /\ result' = result

\* --------------------------------------------------------- initialize ---
\* self.vm.check_and_refresh_token() in initialize(): a failure is re-raised
InitToken ==
  /\ pc = "init_token"
  /\ \E ok \in BOOLEAN :
       IF ok THEN pc' = "init_cached" /\ result' = result
       ELSE Finish("init_failed")
  /\ UNCHANGED <<vehicle, daily_stats, estimatorVars, configVars, earlier, pass, passVars>>

\* _get_cached_vehicle_state, _update_vehicle_properties and the estimator
InitCached ==
  /\ pc = "init_cached"
  /\ \E ok \in BOOLEAN :
       IF ok THEN \E t \in Telemetry : UpdateAndEstimate(t, "init_force", "init_failed")
       ELSE Finish("init_failed") /\ UNCHANGED <<vehicle, estimatorVars>>
  /\ UNCHANGED <<daily_stats, configVars, earlier, pass, passVars>>

\* force_refresh_vehicle_state and update_vehicle_with_cached_state
InitForce ==
  /\ pc = "init_force"
  /\ \E ok \in BOOLEAN :
       IF ok THEN /\ \E t \in Telemetry : vehicle' = t
                  /\ pc' = "refresh_token" /\ result' = result
       ELSE Finish("init_failed") /\ UNCHANGED vehicle
  /\ UNCHANGED <<daily_stats, estimatorVars, configVars, earlier, pass, passVars>>

\* ------------------------------------------------------------ refresh ---
\* self.vm.check_and_refresh_token() in refresh(): a failure returns
RefreshToken ==
  /\ pc = "refresh_token"
  /\ \E ok \in BOOLEAN :
       IF ok THEN pc' = "refresh_cached" /\ result' = result
       ELSE Finish("returned")
  /\ UNCHANGED <<vehicle, daily_stats, estimatorVars, configVars, earlier, pass, passVars>>

\* _get_cached_vehicle_state, _update_vehicle_properties and the estimator
RefreshCached ==
  /\ pc = "refresh_cached"
  /\ \E ok \in BOOLEAN :
       IF ok THEN \E t \in Telemetry : UpdateAndEstimate(t, "driving_info", "zero_division")
       ELSE Finish("returned") /\ UNCHANGED <<vehicle, estimatorVars>>
  /\ UNCHANGED <<daily_stats, configVars, earlier, pass, passVars>>

\* _get_driving_info and _update_vehicle_drive_info, before either pass
DrivingInfo ==
  /\ pc = "driving_info"
  /\ \E ok \in BOOLEAN :
       IF ok THEN /\ \E ds \in DailyStatsResponses : daily_stats' = ds
                  /\ pc' = "pass_fetch" /\ result' = result
       ELSE Finish("returned") /\ UNCHANGED daily_stats
  /\ UNCHANGED <<vehicle, estimatorVars, configVars, earlier, pass, passVars>>

\* where control goes when process_and_upload_daily_stats returns
AfterPass(p) ==
  IF p = 1 THEN pc' = "delta" /\ result' = result
  ELSE Finish("returned")

\* where the upload loop stands with the day at position i
LoopAt(fs, i, month, p) ==
  IF i > Len(fs) THEN AfterPass(p)
  ELSE /\ pc' = IF NewMonth(Month(fs[i]), month) THEN "month" ELSE "day"
       /\ result' = result

\* the variant whose except clause leaves latest_date as the try block set it
LatestDate_kept(resp) ==
  IF resp.kind \in {"entries", "malformed"} THEN ParseDate(resp.date) ELSE NoDate

\* latest_date after the try block and its except clause
LatestDate(resp) ==
  IF resp.kind = "entries" THEN ParseDate(resp.date) ELSE NoDate

\* process_and_upload_daily_stats up to the upload loop: the checkpoint
\* lookup, the odometer assignment, the filter and the sort
ProcessStart ==
  /\ pc = "pass_fetch"
  /\ \E resp \in FuelingsResponses :
       LET latest == LatestDate(resp)
           sorted_daily_stats == SortNewestFirst(DOMAIN daily_stats)
           selected == SelectSeq(sorted_daily_stats,
                                 LAMBDA d : KeepDay(d, latest, today))
           fs == IF sorted_daily_stats = <<>> \/ AlreadyCurrent(latest, today)
                 THEN <<>> ELSE SortOldestFirst(selected)
       IN /\ pass' = pass + 1
          /\ lookup' = CASE resp.kind = "entries" -> "present"
                         [] resp.kind = "empty" -> "absent"
                         [] OTHER -> "failed"
          /\ latest_date' = latest
          /\ daily_stats' = AssignOdometers(sorted_daily_stats, daily_stats,
                                            vehicle.odometer)
          /\ filtered_stats' = fs
          /\ idx' = 1
          /\ current_month' = NoMonth
          /\ calls' = <<>>
          /\ LoopAt(fs, 1, NoMonth, pass + 1)
  /\ UNCHANGED <<vehicle, estimatorVars, configVars, earlier>>

Call(op, arg, ok, data) == [op |-> op, arg |-> arg, ok |-> ok, data |-> data]

\* update_trip_info_for_month: a failure is logged and False returned,
\* which the loop does not look at
MonthHydrate ==
  /\ pc = "month"
  /\ \E ok \in BOOLEAN :
       calls' = Append(calls, Call("month", Month(filtered_stats[idx]), ok, NoRequest))
  /\ current_month' = Month(filtered_stats[idx])
  /\ pc' = "day"
  /\ UNCHANGED <<result, vehicle, daily_stats, estimatorVars, configVars, earlier, pass,
                 lookup, latest_date, filtered_stats, idx>>

\* the variant that goes on with the next day after a failure
DayHydrate_continue ==
  /\ pc = "day"
  /\ \E ok \in BOOLEAN :
       /\ calls' = Append(calls, Call("day", filtered_stats[idx], ok, NoRequest))
       /\ IF ok THEN pc' = "send" /\ result' = result /\ idx' = idx
          ELSE LoopAt(filtered_stats, idx + 1, current_month, pass) /\ idx' = idx + 1
  /\ UNCHANGED <<vehicle, daily_stats, estimatorVars, configVars, earlier, pass,
                 lookup, latest_date, filtered_stats, current_month>>

\* self.vm.update_day_trip_info: a failure returns from the pass
DayHydrate ==
  /\ pc = "day"
  /\ \E ok \in BOOLEAN :
       /\ calls' = Append(calls, Call("day", filtered_stats[idx], ok, NoRequest))
       /\ IF ok THEN pc' = "send" /\ result' = result
          ELSE AfterPass(pass)
  /\ UNCHANGED <<vehicle, daily_stats, estimatorVars, configVars, earlier, pass,
                 lookup, latest_date, filtered_stats, idx, current_month>>

\* send_consumption_to_spritmonitor(day): nothing is sent without a vehicle
\* id; a failed upload is logged and re-raised, which leaves refresh()
Send ==
  /\ pc = "send"
  /\ IF ~spritmonitor_vehicle_id
     THEN /\ calls' = calls
          /\ LoopAt(filtered_stats, idx + 1, current_month, pass)
     ELSE \E ok \in BOOLEAN :
            /\ calls' = Append(calls,
                 Call("submit", filtered_stats[idx], ok,
                      RequestData(ConsumptionData(filtered_stats[idx], daily_stats,
                                    vehicle, charge_type,
                                    charging_power_in_kilowatts))))
            /\ IF ok THEN LoopAt(filtered_stats, idx + 1, current_month, pass)
               ELSE Finish("upload_failed")
  /\ idx' = idx + 1
  /\ UNCHANGED <<vehicle, daily_stats, estimatorVars, configVars, earlier, pass,
                 lookup, latest_date, filtered_stats, current_month>>

\* the day-level hydrations and uploads of the pass that has returned
DayLevelCalls ==
  {[op |-> calls[i].op, arg |-> calls[i].arg] :
     i \in {j \in 1..Len(calls) : calls[j].op \in {"day", "submit"}}}

\* delta = now - last_updated_at; a negative delta raises RuntimeError.
\* The locals of the pass that has returned are gone when refresh() goes on;
\* with `tracked` its day-level calls are remembered in earlier.
CheckDelta(tracked) ==
  /\ pc = "delta"
  /\ \E negative \in BOOLEAN :
       IF negative THEN Finish("negative_delta") /\ UNCHANGED <<passVars, earlier>>
       ELSE /\ pc' = "force_refresh" /\ result' = result
            /\ lookup' = "none"
            /\ latest_date' = NoDate
            /\ filtered_stats' = <<>>
            /\ idx' = 1
            /\ current_month' = NoMonth
            /\ calls' = <<>>
            /\ earlier' = IF tracked THEN DayLevelCalls ELSE earlier
  /\ UNCHANGED <<vehicle, daily_stats, estimatorVars, configVars, pass>>

DeltaCheck == CheckDelta(FALSE)
DeltaCheckTracked == CheckDelta(TRUE)

\* self.vm.force_refresh_vehicle_state in refresh()
ForceRefresh ==
  /\ pc = "force_refresh"
  /\ \E ok \in BOOLEAN :
       IF ok THEN pc' = "update_cached" /\ result' = result
       ELSE Finish("returned")
  /\ UNCHANGED <<vehicle, daily_stats, estimatorVars, configVars, earlier, pass, passVars>>

\* update_vehicle_with_cached_state and the estimator
UpdateCached ==
  /\ pc = "update_cached"
  /\ \E ok \in BOOLEAN :
       IF ok THEN \E t \in Telemetry : UpdateAndEstimate(t, "driving_info", "zero_division")
       ELSE Finish("returned") /\ UNCHANGED <<vehicle, estimatorVars>>
  /\ UNCHANGED <<daily_stats, configVars, earlier, pass, passVars>>

Next ==
  \/ InitToken
  \/ InitCached
  \/ InitForce
  \/ RefreshToken
  \/ RefreshCached
  \/ DrivingInfo
  \/ ProcessStart
  \/ MonthHydrate
  \/ DayHydrate
  \/ Send
  \/ DeltaCheck
  \/ ForceRefresh
  \/ UpdateCached

Spec == Init /\ [][Next]_vars

\* the same run, remembering across the delta check what the first pass did
RunNext ==
  \/ InitToken
  \/ InitCached
  \/ InitForce
  \/ RefreshToken
  \/ RefreshCached
  \/ DrivingInfo
  \/ ProcessStart
  \/ MonthHydrate
  \/ DayHydrate
  \/ Send
  \/ DeltaCheckTracked
  \/ ForceRefresh
  \/ UpdateCached

RunSpec == Init /\ [][RunNext]_vars

\* ------------------------------------------------- reading the history ---
CallsOf(op) == SelectSeq(calls, LAMBDA c : c.op = op)
Args(cs) == [i \in 1..Len(cs) |-> cs[i].arg]
Increasing(seq) == \A i, j \in 1..Len(seq) : i < j => seq[i] < seq[j]

\* a pass has started and its locals are still there
PassStarted == lookup # "none"
\* process_and_upload_daily_stats has returned or raised
PassEnded == PassStarted /\ pc \in {"delta", "done"}
\* it has returned after the loop went through every selected day
PassComplete ==
  /\ PassStarted
  /\ pc = "delta" \/ (pc = "done" /\ result = "returned")
  /\ \A i \in 1..Len(calls) : calls[i].op = "day" => calls[i].ok
NoCallFailed == \A i \in 1..Len(calls) : calls[i].ok

RECURSIVE SumDistances(_, _)
SumDistances(S, stats) ==
  IF S = {} THEN 0
  ELSE LET d == SetMin(S) IN stats[d].distance + SumDistances(S \ {d}, stats)

\* ------------------------------------------------------------- claims ---

\* C1: in a pass whose checkpoint lookup returned date D, no day dated on or
\* before D is selected, day-hydrated or submitted.
C1_NothingAtOrBeforeCheckpoint ==
  lookup = "present" =>
    /\ \A i \in 1..Len(filtered_stats) : filtered_stats[i] > latest_date
    /\ \A i \in 1..Len(calls) :
         calls[i].op \in {"day", "submit"} => calls[i].arg > latest_date
    /\ \A i \in 1..Len(calls) :
         calls[i].op = "submit" => ParseDate(calls[i].data.date) > latest_date

\* a record went out in a pass whose checkpoint is a date for which (and
\* before which) local stats exist
C1_Witness ==
  /\ lookup = "present"
  /\ latest_date \in DOMAIN daily_stats
  /\ \E d \in DOMAIN daily_stats : d < latest_date
  /\ \E i \in 1..Len(calls) : calls[i].op = "submit" /\ calls[i].ok

\* C2: whatever the checkpoint lookup gave (a date, nothing, a failure),
\* every day that is hydrated or submitted is dated strictly before today.
C2_NothingFromToday ==
  /\ \A i \in 1..Len(filtered_stats) : filtered_stats[i] < today
  /\ \A i \in 1..Len(calls) :
       calls[i].op \in {"day", "submit"} => calls[i].arg < today
  /\ \A i \in 1..Len(calls) :
       calls[i].op = "submit" => ParseDate(calls[i].data.date) < today

\* a record went out after a failed lookup while the local stats hold
\* today's day and a later one
C2_Witness ==
  /\ lookup = "failed"
  /\ today \in DOMAIN daily_stats
  /\ \E d \in DOMAIN daily_stats : d > today
  /\ \E i \in 1..Len(calls) : calls[i].op = "submit" /\ calls[i].ok

\* the vehicle and the daily stats are those the running pass worked on
OdometersAssigned == PassStarted /\ pc \in {"month", "day", "send", "delta", "done"}

\* C3: after the backward assignment each day's odometer is the vehicle's
\* odometer minus the distances of all strictly more recent days of the
\* batch, odometers do not decrease with the date, and a submitted record
\* carries its day's odometer.
C3_BackwardOdometers ==
  OdometersAssigned =>
    /\ \A d \in DOMAIN daily_stats :
         daily_stats[d].odometer =
           vehicle.odometer
             - SumDistances({e \in DOMAIN daily_stats : e > d}, daily_stats)
    /\ \A d, e \in DOMAIN daily_stats :
         d < e => daily_stats[d].odometer <= daily_stats[e].odometer
    /\ \A i \in 1..Len(calls) :
         calls[i].op = "submit" =>
           calls[i].data.odometer = daily_stats[calls[i].arg].odometer

\* three days were assigned, the two more recent ones with a distance
C3_Witness ==
  /\ OdometersAssigned
  /\ \E d, e, f \in DOMAIN daily_stats :
       /\ d < e /\ e < f
       /\ daily_stats[e].distance > 0 /\ daily_stats[f].distance > 0
       /\ daily_stats[d].odometer < daily_stats[e].odometer
  /\ \E i \in 1..Len(calls) : calls[i].op = "submit"

\* C4: within a pass the records go out oldest first, and between two
\* submitted days no selected day is left out.
C4_ChronologicalUpload ==
  LET submitted == Args(CallsOf("submit"))
  IN /\ Increasing(submitted)
     /\ Increasing(Args(CallsOf("day")))
     /\ \A i, j \in 1..Len(submitted) :
          \A k \in 1..Len(filtered_stats) :
            (submitted[i] < filtered_stats[k] /\ filtered_stats[k] < submitted[j])
              => \E m \in 1..Len(submitted) : submitted[m] = filtered_stats[k]

\* three days have been submitted in one pass
C4_Witness == Len(CallsOf("submit")) >= 3

\* the days a first backfill has to send: every local day before today
DaysBeforeToday == {d \in DOMAIN daily_stats : d < today}

\* C5 as stated: with no checkpoint and no failing call, a pass submits
\* exactly the local days before today, each once.
C5_AsStated ==
  (PassComplete /\ lookup = "absent" /\ NoCallFailed)
    => Args(CallsOf("submit")) = SortSet(DaysBeforeToday)

\* C5: the same, given that the tracking-service vehicle id is configured
\* (without it send_consumption_to_spritmonitor skips every upload).
C5_FullBackfill ==
  (PassComplete /\ lookup = "absent" /\ NoCallFailed /\ spritmonitor_vehicle_id)
    => /\ Args(CallsOf("submit")) = SortSet(DaysBeforeToday)
       /\ filtered_stats = SortSet(DaysBeforeToday)
       /\ Len(CallsOf("submit")) = Cardinality(DaysBeforeToday)

\* a complete first backfill of three days, today's day being in the stats
C5_Witness ==
  /\ PassComplete /\ lookup = "absent" /\ NoCallFailed /\ spritmonitor_vehicle_id
  /\ today \in DOMAIN daily_stats
  /\ Cardinality(DaysBeforeToday) >= 3
  /\ Len(CallsOf("submit")) = Cardinality(DaysBeforeToday)

MonthsCalled == Args(CallsOf("month"))
DaysCalled == Args(CallsOf("day"))
MonthsOf(days) == {Month(days[i]) : i \in 1..Len(days)}
\* the position in calls of the first call of kind op with argument arg
FirstCall(op, arg) ==
  SetMin({i \in 1..Len(calls) : calls[i].op = op /\ calls[i].arg = arg})

\* C6 as stated: whenever a pass has ended, month-level hydration has been
\* called once for each distinct month of the selected days, in order.
C6_AsStated ==
  PassEnded => MonthsCalled = SortSet(MonthsOf(filtered_stats))

\* C6: month-level hydration is called at most once per month and in
\* chronological order, exactly for the months of the selected days the loop
\* has reached, each call before the first day-level call of its month; a
\* pass that goes through all selected days makes exactly one call for each
\* distinct month among them.
C6_MonthHydration ==
  /\ Increasing(MonthsCalled)
  /\ Range(MonthsCalled) =
       MonthsOf(DaysCalled)
         \cup (IF pc = "day" THEN {Month(filtered_stats[idx])} ELSE {})
  /\ \A j \in 1..Len(calls) :
       calls[j].op = "day" =>
         \E i \in 1..(j - 1) :
           calls[i].op = "month" /\ calls[i].arg = Month(calls[j].arg)
  /\ PassComplete =>
       /\ MonthsCalled = SortSet(MonthsOf(filtered_stats))
       /\ Len(MonthsCalled) = Cardinality(MonthsOf(filtered_stats))

\* a complete pass over three days of two months, the second month's
\* hydration coming after the first month's days
C6_Witness ==
  /\ PassComplete
  /\ Len(DaysCalled) >= 3
  /\ Len(MonthsCalled) = 2
  /\ FirstCall("month", MonthsCalled[2]) > FirstCall("day", DaysCalled[2])

\* C7: after an estimator call that found the car not charging, the call
\* returned 0 and the charge type and power the record builder will use are
\* UNKNOWN and 0.
C7_NotChargingIsUnknown ==
  (estimate.ran /\ ~estimate.charging) =>
    /\ estimate.power = 0
    /\ charge_type = "UNKNOWN"
    /\ charging_power_in_kilowatts.n = 0

\* C8: a run that ends on the negative delta has submitted no record.
C8_NoUploadBeforeNegativeDelta ==
  result = "negative_delta" => Len(CallsOf("submit")) = 0

\* C9: once a call of the upload loop has failed, the pass makes no further
\* call: a failed call is the last call of its pass.
C9_FailureEndsPass ==
  \A i \in 1..Len(calls) : ~calls[i].ok => i = Len(calls)

\* C10: every record submitted for a historical day (and accepted) carries
\* charging power 0 and charging duration 0, whatever the estimator found.
C10_HistoricalDaysWithoutCharge ==
  \A i \in 1..Len(calls) :
    (calls[i].op = "submit" /\ calls[i].ok) =>
      /\ calls[i].data.charging_power.n = 0
      /\ calls[i].data.charging_duration = 0

\* ------------------------------------------- the estimator on its own ---
\* The snapshots of the estimator runs: percentages on both sides of every
\* taper threshold that a DC session can have, both limits at and below 100,
\* and reported times to full including none.
EstPercentages == {20, 28, 41, 50, 60, 76, 81, 84, 96}
EstLimits == {80, 100}
EstDurations == {0, 10, 60}

EstTelemetry ==
  {Snapshot(c, p, a, d, m, 20) :
     c \in BOOLEAN, p \in EstPercentages, a \in EstLimits, d \in EstLimits,
     m \in EstDurations}

\* a constructed client about to receive vehicle state
EstInit ==
  /\ Init
  /\ spritmonitor_vehicle_id = TRUE
  /\ today = MaxDay

\* fresh vehicle state arrives and get_estimated_charging_power runs on it,
\* as initialize() and refresh() do each time they have updated the vehicle
EstimatorRun ==
  /\ pc = "init_token"
  /\ \E t \in EstTelemetry : UpdateAndEstimate(t, "init_token", "zero_division")
  /\ UNCHANGED <<daily_stats, configVars, earlier, pass, passVars>>

EstNext == EstimatorRun

EstSpec == EstInit /\ [][EstNext]_vars

\* the naive estimate of the last run's snapshot
NaivePower ==
  PowerFor(100 - vehicle.ev_battery_percentage,
           vehicle.ev_estimated_current_charge_duration)
\* the estimate against the DC limit
DcPower ==
  PowerFor(vehicle.ev_charge_limits_dc - vehicle.ev_battery_percentage,
           vehicle.ev_estimated_current_charge_duration)
\* the last estimator run was on a charging car and returned
EstimatedCharging == estimate.ran /\ estimate.charging /\ ~estimate.raised
\* the vehicle state of the last run meets the DC rule
MeetsDcRule ==
  /\ RatGt(NaivePower, 8)
  /\ vehicle.ev_charge_limits_ac - vehicle.ev_battery_percentage > 15

\* C11: a charging session that meets the DC rule is classified DC and the
\* power the estimator returns is the one recomputed against the DC limit
\* (then taper-clamped and rounded), also for DC limits below 100.
C11_DcPowerFromDcLimit ==
  (EstimatedCharging /\ MeetsDcRule) =>
    /\ charge_type = "DC"
    /\ estimate.power =
         RoundTenths(TaperClamp(vehicle.ev_battery_percentage, DcPower))


\* the taper table of the claim: whether a percentage has a ceiling, and it
Capped(pct) == pct > 27
Ceiling(pct) ==
  IF pct > 95 THEN 5 ELSE IF pct > 90 THEN 10 ELSE IF pct > 80 THEN 20
  ELSE IF pct > 75 THEN 35 ELSE IF pct > 55 THEN 55 ELSE IF pct > 40 THEN 70
  ELSE 77

\* C12: a run that classifies the session as DC returns at most the taper
\* ceiling of the band the battery percentage is in (no ceiling at 27 or
\* below), the ceiling never rises with the percentage, and a run that
\* classifies the session as AC returns the estimate unclamped.
C12_TaperCeiling ==
  /\ EstimatedCharging =>
       IF charge_type = "DC"
       THEN /\ Capped(vehicle.ev_battery_percentage) =>
                 estimate.power <= 10 * Ceiling(vehicle.ev_battery_percentage)
            /\ estimate.power <= RoundTenths(NaivePower)
            /\ ~Capped(vehicle.ev_battery_percentage) =>
                 estimate.power = RoundTenths(NaivePower)
       ELSE estimate.power = RoundTenths(NaivePower)
  /\ \A p, q \in 0..100 :
       (p < q /\ Capped(p)) => (Capped(q) /\ Ceiling(q) <= Ceiling(p))

\* a DC run in the band above 75 % whose estimate the ceiling cut down
C12_Witness ==
  /\ EstimatedCharging
  /\ charge_type = "DC"
  /\ vehicle.ev_battery_percentage = 76
  /\ estimate.power = 350
  /\ RoundTenths(NaivePower) > 350


\* the positions in calls of the failed day-level hydrations and uploads
FailedDayCalls ==
  {i \in 1..Len(calls) : calls[i].op \in {"day", "submit"} /\ ~calls[i].ok}
HasCall(op, d) == \E j \in 1..Len(calls) : calls[j].op = op /\ calls[j].arg = d

\* C13 as stated: when a pass is over, every selected day after a day whose
\* hydration or upload failed has still been hydrated and (with a vehicle
\* id configured) submitted.
C13_AsStated ==
  PassEnded =>
    \A i \in FailedDayCalls :
      \A k \in 1..Len(filtered_stats) :
        filtered_stats[k] > calls[i].arg =>
          /\ HasCall("day", filtered_stats[k])
          /\ spritmonitor_vehicle_id => HasCall("submit", filtered_stats[k])

\* C13: a failed day-level hydration or upload is the last call of its pass:
\* no selected day after the failed one is hydrated or submitted in that
\* pass; the hydration failure returns from the pass, the upload failure
\* ends the run.
C13_DayFailureEndsPass ==
  \A i \in FailedDayCalls :
    /\ i = Len(calls)
    /\ pc \in {"delta", "done"}
    /\ calls[i].op = "submit" => result = "upload_failed"
    /\ calls[i].op = "day" => result \in {"running", "returned", "negative_delta"}
    /\ \A k \in 1..Len(filtered_stats) :
         filtered_stats[k] > calls[i].arg =>
           /\ ~HasCall("day", filtered_stats[k])
           /\ ~HasCall("submit", filtered_stats[k])

\* the second of three selected days failed to hydrate after the first one
\* had been submitted; the third is left
C13_Witness ==
  /\ PassEnded
  /\ Len(filtered_stats) = 3
  /\ HasCall("submit", filtered_stats[1])
  /\ \E i \in FailedDayCalls :
       calls[i].op = "day" /\ calls[i].arg = filtered_stats[2]


\* C14: an invocation of refresh() makes one pass, so that no day is
\* day-hydrated or submitted more than once within it: no day-level call of
\* the running pass repeats one that the invocation has already made.
C14_NoDayTwice ==
  \A i \in 1..Len(calls) :
    calls[i].op \in {"day", "submit"} =>
      [op |-> calls[i].op, arg |-> calls[i].arg] \notin earlier


\* C15: a pass whose checkpoint lookup failed goes on without a checkpoint:
\* it selects every local day before today, oldest first, which is what a
\* pass with no remote entry selects, and enters the upload loop with them.
C15_FailedLookupIsAbsent ==
  lookup \in {"failed", "absent"} =>
    /\ latest_date = NoDate
    /\ filtered_stats = SortSet(DaysBeforeToday)
    /\ (lookup = "failed" /\ DaysBeforeToday # {}) =>
         (pc = "month" \/ Len(calls) > 0)

\* after a failed lookup two days were uploaded, today's day being left out
C15_Witness ==
  /\ lookup = "failed"
  /\ today \in DOMAIN daily_stats
  /\ Len(filtered_stats) >= 2
  /\ Len(CallsOf("submit")) >= 2


\* C16: the estimator raises no error of its own: every run on a charging
\* car, whatever the percentage, the limits and the minutes to full (0
\* included), returns a power and a classification.
C16_EstimatorNeverRaises ==
  estimate.ran => ~estimate.raised /\ result # "zero_division"

\* C17: after every estimator run that returned, the charging power kept in
\* the client for the record builder is the power that run returned.
C17_StoredPowerIsReturnedPower ==
  (estimate.ran /\ ~estimate.raised) =>
    10 * charging_power_in_kilowatts.n
      = estimate.power * charging_power_in_kilowatts.d

====
